---- MODULE Spec2Model ----
(***************************************************************************)
(* Model of crates/vim/src/state.rs: the register store of VimGlobals      *)
(* (write_registers, read_register, system_clipboard_is_newer) together    *)
(* with the system clipboard it talks to, and Operator::is_waiting.        *)
(***************************************************************************)
EXTENDS Naturals, Sequences, FiniteSets

VARIABLES
    registers,      \* VimGlobals.registers : HashMap<char, Register>
    last_yank,      \* VimGlobals.last_yank : Option<SharedString>
    clipboard,      \* the system clipboard : Option<ClipboardItem>
    primary,        \* the primary selection (linux) : Option<ClipboardItem>
    setting,        \* VimSettings.use_system_clipboard
    last,           \* the call (or external event) of the latest step
    result,         \* what the latest read_register returned
    lastWrite,      \* the latest write_registers call, NoCall before the first
    held,           \* what the register named by the latest write held before it
    sinceWrite,     \* calls and events since the latest write
    extSince,       \* an external actor set the clipboard since the latest write
    zeroSource,     \* content of the latest implicit yank or write to '"' or '0' 
    steps,          \* number of calls and events so far
    pending,        \* read_register between its two clipboard reads, or None
    repeated,       \* the latest step returned a read of the name and editor
                    \* of the read that returned in the step before it
    deletes,        \* contents of the implicit linewise deletes, oldest first
    operator,       \* the Operator handed to is_waiting
    mode,           \* the Mode handed to is_waiting
    waiting         \* what is_waiting returned, None before the call

vars == <<registers, last_yank, clipboard, primary, setting, last,
          result, lastWrite, held, sinceWrite, extSince, zeroSource, steps,
          pending, repeated, deletes,
          operator, mode, waiting>>

routerVars == <<registers, last_yank, clipboard, primary, setting, last,
                result, lastWrite, held, sinceWrite, extSince,
                zeroSource, steps, pending, repeated>>

waitingVars == <<operator, mode, waiting>>

-----------------------------------------------------------------------------
(* Bounds of the model. *)

\* calls and external events in one run of the register router
MaxSteps == 3

\* implicit linewise deletes in one run of the delete history
MaxDeletes == 10

-----------------------------------------------------------------------------
(* Option<T>: None is the empty sequence, Some(x) the one-element sequence. *)

None == <<>>

Some(x) == <<x>>

IsSome(o) == o # None

Unwrap(o) == o[1]

-----------------------------------------------------------------------------
(* Texts are sequences of characters; characters are one-letter strings. *)

Newline == "\n"

contains_newline(text) == \E i \in DOMAIN text : text[i] = Newline

\* Vec<ClipboardSelection> of a one-cursor selection
Selections == << [len |-> 1, is_entire_line |-> FALSE] >>

Register(text, clipboard_selections) ==
    [text |-> text, clipboard_selections |-> clipboard_selections]

\* Register::default()
DefaultRegister == Register(<<>>, None)

\* impl From<Register> for ClipboardItem: the metadata is stored serialized
RegisterToClipboardItem(register) ==
    [text |-> register.text,
     metadata |-> IF IsSome(register.clipboard_selections)
                  THEN Some([json |-> Unwrap(register.clipboard_selections)])
                  ELSE None]

\* impl From<ClipboardItem> for Register: the metadata is parsed back
ClipboardItemToRegister(item) ==
    [text |-> item.text,
     clipboard_selections |-> IF IsSome(item.metadata)
                              THEN Some(Unwrap(item.metadata).json)
                              ELSE None]

\* Option<ClipboardItem>.map(|item| item.into())
MapItemToRegister(opt) ==
    IF IsSome(opt) THEN Some(ClipboardItemToRegister(Unwrap(opt))) ELSE None

-----------------------------------------------------------------------------
(* Register names. *)

Unnamed == "\""

ReadOnlyNames == {"_", ":", ".", "%", "#", "=", "/"}

Digits == <<"1", "2", "3", "4", "5", "6", "7", "8", "9">>

NumberedNames == {Digits[i] : i \in DOMAIN Digits}

\* every char the model uses as a register name or store key
Chars == {Unnamed, "0", "-", "a", "A", "+", "*"} \cup ReadOnlyNames
            \cup NumberedNames

\* char::to_lowercase().next().unwrap_or(register)
to_lowercase(c) == IF c = "A" THEN "a" ELSE c

UseSystemClipboard == {"Never", "OnYank", "Always"}

\* cfg(target_os = "linux"): the build modelled is the linux one, where '*'
\* is the primary selection
target_linux == TRUE

-----------------------------------------------------------------------------
(* VimGlobals::write_registers.  The state handed around is the record     *)
(* [registers, last_yank, clipboard, primary]: the two fields of VimGlobals *)
(* the function touches and the two platform stores behind cx.              *)

\* append_register with the selections of the old content kept
append_register_keeping(regs, lower, content) ==
    LET current == IF IsSome(regs[lower]) THEN Unwrap(regs[lower])
                   ELSE DefaultRegister
        yanked == Register(current.text \o content.text,
                           current.clipboard_selections)
    IN  [regs EXCEPT ![lower] = Some(yanked), ![Unnamed] = Some(yanked)]

\* explicit uppercase register: append to the lowercase one (lines 173-178)
append_register(regs, lower, content) ==
    LET current == IF IsSome(regs[lower]) THEN Unwrap(regs[lower])
                   ELSE DefaultRegister
        yanked == Register(current.text \o content.text, None)
    IN  [regs EXCEPT ![lower] = Some(yanked), ![Unnamed] = Some(yanked)]

\* write_named keeping a copy of what goes to the clipboard under '+'
write_named_plus_stored(s, lower, content, linux) ==
    LET mirrored == [s.registers EXCEPT ![Unnamed] = Some(content)]
    IN  CASE lower \in ReadOnlyNames ->
                [s EXCEPT !.registers = mirrored]
          [] lower = "+" ->
                [s EXCEPT !.registers =
                              [mirrored EXCEPT !["+"] = Some(content)],
                          !.clipboard = Some(RegisterToClipboardItem(content))]
          [] lower = "*" ->
                IF linux
                THEN [s EXCEPT !.registers = mirrored,
                               !.primary = Some(RegisterToClipboardItem(content))]
                ELSE [s EXCEPT !.registers = mirrored,
                               !.clipboard = Some(RegisterToClipboardItem(content))]
          [] lower = Unnamed ->
                [s EXCEPT !.registers =
                    [mirrored EXCEPT !["0"] = Some(content),
                                     ![Unnamed] = Some(content)]]
          [] OTHER ->
                [s EXCEPT !.registers =
                    [mirrored EXCEPT ![lower] = Some(content)]]

\* write_named with the unnamed register skipped for the read-only names
write_named_unmirrored(s, lower, content, linux) ==
    LET mirrored == [s.registers EXCEPT ![Unnamed] = Some(content)]
    IN  CASE lower \in ReadOnlyNames -> s
          [] lower = "+" ->
                [s EXCEPT !.registers = mirrored,
                          !.clipboard = Some(RegisterToClipboardItem(content))]
          [] lower = "*" ->
                IF linux
                THEN [s EXCEPT !.registers = mirrored,
                               !.primary = Some(RegisterToClipboardItem(content))]
                ELSE [s EXCEPT !.registers = mirrored,
                               !.clipboard = Some(RegisterToClipboardItem(content))]
          [] lower = Unnamed ->
                [s EXCEPT !.registers =
                    [mirrored EXCEPT !["0"] = Some(content),
                                     ![Unnamed] = Some(content)]]
          [] OTHER ->
                [s EXCEPT !.registers =
                    [mirrored EXCEPT ![lower] = Some(content)]]

\* write_named with the store write of a plain name left out
write_named_unstored(s, lower, content, linux) ==
    LET mirrored == [s.registers EXCEPT ![Unnamed] = Some(content)]
    IN  CASE lower = "+" ->
                [s EXCEPT !.registers = mirrored,
                          !.clipboard = Some(RegisterToClipboardItem(content))]
          [] lower = "*" ->
                IF linux
                THEN [s EXCEPT !.registers = mirrored,
                               !.primary = Some(RegisterToClipboardItem(content))]
                ELSE [s EXCEPT !.registers = mirrored,
                               !.clipboard = Some(RegisterToClipboardItem(content))]
          [] lower = Unnamed ->
                [s EXCEPT !.registers =
                    [mirrored EXCEPT !["0"] = Some(content),
                                     ![Unnamed] = Some(content)]]
          [] OTHER ->
                [s EXCEPT !.registers = mirrored]

\* explicit register that is its own lowercase form (lines 180-199)
write_named(s, lower, content, linux) ==
    LET mirrored == [s.registers EXCEPT ![Unnamed] = Some(content)]
    IN  CASE lower \in ReadOnlyNames ->
                [s EXCEPT !.registers = mirrored]
          [] lower = "+" ->
                [s EXCEPT !.registers = mirrored,
                          !.clipboard = Some(RegisterToClipboardItem(content))]
          [] lower = "*" ->
                IF linux
                THEN [s EXCEPT !.registers = mirrored,
                               !.primary = Some(RegisterToClipboardItem(content))]
                ELSE [s EXCEPT !.registers = mirrored,
                               !.clipboard = Some(RegisterToClipboardItem(content))]
          [] lower = Unnamed ->
                [s EXCEPT !.registers =
                    [mirrored EXCEPT !["0"] = Some(content),
                                     ![Unnamed] = Some(content)]]
          [] OTHER ->
                [s EXCEPT !.registers =
                    [mirrored EXCEPT ![lower] = Some(content)]]

\* Some(register) branch (lines 170-200)
write_explicit(s, register, content, linux) ==
    LET lower == to_lowercase(register)
    IN  IF lower # register
        THEN [s EXCEPT !.registers = append_register(s.registers, lower, content)]
        ELSE write_named(s, lower, content, linux)

\* mirror_clipboard with OnYank mirroring deletes and changes too
mirror_clipboard_every_write(s, content, is_yank, use_system_clipboard) ==
    IF use_system_clipboard = "Always" \/ use_system_clipboard = "OnYank"
    THEN [s EXCEPT !.last_yank = Some(content.text),
                   !.clipboard = Some(RegisterToClipboardItem(content))]
    ELSE [s EXCEPT !.last_yank =
             IF IsSome(s.clipboard) THEN Some(Unwrap(s.clipboard).text)
             ELSE None]

\* mirror_clipboard with the read-back of the clipboard left out
mirror_clipboard_stale(s, content, is_yank, use_system_clipboard) ==
    IF use_system_clipboard = "Always"
        \/ (use_system_clipboard = "OnYank" /\ is_yank)
    THEN [s EXCEPT !.last_yank = Some(content.text),
                   !.clipboard = Some(RegisterToClipboardItem(content))]
    ELSE s

\* mirror_clipboard taking the system clipboard into register 0 when the
\* write is not mirrored
mirror_clipboard_importing(s, content, is_yank, use_system_clipboard) ==
    IF use_system_clipboard = "Always"
        \/ (use_system_clipboard = "OnYank" /\ is_yank)
    THEN [s EXCEPT !.last_yank = Some(content.text),
                   !.clipboard = Some(RegisterToClipboardItem(content))]
    ELSE [s EXCEPT !.last_yank =
             IF IsSome(s.clipboard) THEN Some(Unwrap(s.clipboard).text)
             ELSE None,
                   !.registers =
             IF IsSome(s.clipboard)
             THEN [s.registers EXCEPT !["0"] =
                      MapItemToRegister(s.clipboard)]
             ELSE s.registers]

\* clipboard mirroring of an implicit write (lines 202-212)
mirror_clipboard(s, content, is_yank, use_system_clipboard) ==
    IF use_system_clipboard = "Always"
        \/ (use_system_clipboard = "OnYank" /\ is_yank)
    THEN [s EXCEPT !.last_yank = Some(content.text),
                   !.clipboard = Some(RegisterToClipboardItem(content))]
    ELSE [s EXCEPT !.last_yank =
             IF IsSome(s.clipboard) THEN Some(Unwrap(s.clipboard).text)
             ELSE None]

\* exclusive end of the char range '1'..'8', as an index into Digits
NumberedEnd == 8

RECURSIVE shift_from(_, _, _)
\* the loop over the numbered registers, from index i on (lines 224-230)
shift_from(regs, content, i) ==
    IF i >= NumberedEnd
    THEN regs
    ELSE LET inserted == [regs EXCEPT ![Digits[i]] = Some(content)]
         IN  IF IsSome(regs[Digits[i]])
             THEN shift_from(inserted, Unwrap(regs[Digits[i]]), i + 1)
             ELSE inserted

\* the numbered stack takes a linewise or multi-line delete (lines 222-231)
shift_numbered(regs, content, linewise) ==
    IF linewise \/ contains_newline(content.text)
    THEN shift_from(regs, content, 1)
    ELSE regs

\* write_small_delete writing register '0', as the yank branch does
write_small_delete_zero(regs, content, linewise) ==
    IF ~contains_newline(content.text)
    THEN [regs EXCEPT !["-"] = Some(content), !["0"] = Some(content)]
    ELSE regs

\* register '-' takes a delete without a line break (lines 218-221)
write_small_delete(regs, content, linewise) ==
    IF ~contains_newline(content.text)
    THEN [regs EXCEPT !["-"] = Some(content)]
    ELSE regs

\* write_implicit_store with the yank falling through to the delete branch
write_implicit_store_fallthrough(regs, content, is_yank, linewise) ==
    LET unnamed == [regs EXCEPT ![Unnamed] = Some(content)]
        zero == IF is_yank THEN [unnamed EXCEPT !["0"] = Some(content)]
                ELSE unnamed
    IN  shift_numbered(write_small_delete(zero, content, linewise),
                       content, linewise)

\* store writes of an implicit write (lines 214-232)
write_implicit_store(regs, content, is_yank, linewise) ==
    LET unnamed == [regs EXCEPT ![Unnamed] = Some(content)]
    IN  IF is_yank
        THEN [unnamed EXCEPT !["0"] = Some(content)]
        ELSE shift_numbered(write_small_delete(unnamed, content, linewise),
                            content, linewise)

\* None branch (lines 201-233)
write_implicit(s, content, is_yank, linewise, use_system_clipboard) ==
    LET m == mirror_clipboard(s, content, is_yank, use_system_clipboard)
    IN  [m EXCEPT !.registers =
            write_implicit_store(m.registers, content, is_yank, linewise)]

\* write_registers with the clipboard mirroring done for explicit writes too
write_registers_mirroring(s, content, register, is_yank, linewise, use_system_clipboard, linux) ==
    IF IsSome(register)
    THEN mirror_clipboard(write_explicit(s, Unwrap(register), content, linux),
                          content, is_yank, use_system_clipboard)
    ELSE write_implicit(s, content, is_yank, linewise, use_system_clipboard)

\* VimGlobals::write_registers (lines 162-234)
write_registers(s, content, register, is_yank, linewise, use_system_clipboard, linux) ==
    IF IsSome(register)
    THEN write_explicit(s, Unwrap(register), content, linux)
    ELSE write_implicit(s, content, is_yank, linewise, use_system_clipboard)

-----------------------------------------------------------------------------
(* VimGlobals::read_register and system_clipboard_is_newer. *)

\* system_clipboard_is_newer with the comparison turned around
system_clipboard_is_newer_inverted(s) ==
    /\ IsSome(s.clipboard)
    /\ IF IsSome(s.last_yank)
       THEN Unwrap(s.last_yank) = Unwrap(s.clipboard).text
       ELSE TRUE

system_clipboard_is_newer(s) ==
    /\ IsSome(s.clipboard)
    /\ IF IsSome(s.last_yank)
       THEN Unwrap(s.last_yank) # Unwrap(s.clipboard).text
       ELSE TRUE

\* read_unnamed with OnYank taking the clipboard whenever it holds something
read_unnamed_eager(s, use_system_clipboard) ==
    CASE use_system_clipboard = "Always" -> MapItemToRegister(s.clipboard)
      [] use_system_clipboard = "OnYank" /\ IsSome(s.clipboard) ->
            MapItemToRegister(s.clipboard)
      [] OTHER -> s.registers[Unnamed]

\* no register, or the explicit unnamed one (lines 242-251)
read_unnamed(s, use_system_clipboard) ==
    CASE use_system_clipboard = "Always" -> MapItemToRegister(s.clipboard)
      [] use_system_clipboard = "OnYank" /\ system_clipboard_is_newer(s) ->
            MapItemToRegister(s.clipboard)
      [] OTHER -> s.registers[Unnamed]

\* impl From<String> for Register, over the Option of the '%' branch
file_register(current_file) ==
    IF IsSome(current_file) THEN Some(Register(Unwrap(current_file), None))
    ELSE None

\* an explicit register other than '"' (lines 252-282); current_file is the
\* path of the file under the editor's cursor, None without editor or file
read_named(s, register, current_file, linux) ==
    LET lower == to_lowercase(register)
    IN  CASE lower \in {"_", ":", ".", "#", "="} -> None
          [] lower = "+" -> MapItemToRegister(s.clipboard)
          [] lower = "*" -> IF linux THEN MapItemToRegister(s.primary)
                            ELSE MapItemToRegister(s.clipboard)
          [] lower = "%" -> file_register(current_file)
          [] OTHER -> s.registers[lower]

read_register(s, register, current_file, use_system_clipboard, linux) ==
    IF IsSome(register) /\ Unwrap(register) # Unnamed
    THEN read_named(s, Unwrap(register), current_file, linux)
    ELSE read_unnamed(s, use_system_clipboard)

-----------------------------------------------------------------------------
(* Mode::is_visual and Operator::is_waiting. *)

Modes == {"Normal", "Insert", "Replace", "Visual", "VisualLine", "VisualBlock"}

UnitOperators ==
    {"Change", "Delete", "Yank", "Replace", "DeleteSurrounds", "Mark",
     "Indent", "Outdent", "Lowercase", "Uppercase", "OppositeCase",
     "Register", "RecordRegister", "ReplayRegister", "ToggleComments"}

\* the values of enum Operator; an Option field is None or Some of a sample
Operators ==
    [tag : UnitOperators]
    \cup [tag : {"Object"}, around : BOOLEAN]
    \cup [tag : {"FindForward"}, before : BOOLEAN]
    \cup [tag : {"FindBackward"}, after : BOOLEAN]
    \cup [tag : {"Jump"}, line : BOOLEAN]
    \cup [tag : {"AddSurrounds"},
          target : {None, Some("Motion"), Some("Object")}]
    \cup [tag : {"ChangeSurrounds"}, target : {None, Some("Word")}]
    \cup [tag : {"Digraph"}, first_char : {None, Some("a")}]

\* is_visual with VisualBlock taken for a non-visual mode
is_visual_narrow(m) ==
    CASE m \in {"Normal", "Insert", "Replace", "VisualBlock"} -> FALSE
      [] m \in {"Visual", "VisualLine"} -> TRUE

is_visual(m) ==
    CASE m \in {"Normal", "Insert", "Replace"} -> FALSE
      [] m \in {"Visual", "VisualLine", "VisualBlock"} -> TRUE

\* is_waiting with AddSurrounds waiting only for a target in a visual mode
is_waiting_both(op, m) ==
    CASE op.tag = "AddSurrounds" -> IsSome(op.target) /\ is_visual(m)
      [] op.tag \in {"FindForward", "Mark", "Jump", "FindBackward",
                     "Register", "RecordRegister", "ReplayRegister",
                     "Replace", "Digraph", "DeleteSurrounds"} -> TRUE
      [] op.tag = "ChangeSurrounds" -> IsSome(op.target)
      [] op.tag \in {"Change", "Delete", "Yank", "Indent", "Outdent",
                     "Lowercase", "Uppercase", "Object", "OppositeCase",
                     "ToggleComments"} -> FALSE

is_waiting(op, m) ==
    CASE op.tag = "AddSurrounds" -> IsSome(op.target) \/ is_visual(m)
      [] op.tag \in {"FindForward", "Mark", "Jump", "FindBackward",
                     "Register", "RecordRegister", "ReplayRegister",
                     "Replace", "Digraph", "DeleteSurrounds"} -> TRUE
      [] op.tag = "ChangeSurrounds" -> IsSome(op.target)
      [] op.tag \in {"Change", "Delete", "Yank", "Indent", "Outdent",
                     "Lowercase", "Uppercase", "Object", "OppositeCase",
                     "ToggleComments"} -> FALSE

-----------------------------------------------------------------------------
(* Inputs of the calls. *)

\* contents handed to write_registers: a word cut out of a line, and a
\* whole line with per-cursor selections
Contents ==
    {Register(<<"a">>, None),
     Register(<<"b", Newline>>, Some(Selections))}

\* whole lines, as a linewise delete hands them over
LineContents ==
    {Register(<<"b", Newline>>, Some(Selections)),
     Register(<<"c", Newline>>, None)}

\* names typed after '"' in the runs of the router
RegisterNames ==
    {Unnamed, "0", "-", "1", "a", "A", "_", "%", "/", "+", "*"}

\* the register argument: none, or a name
RegisterArgs == {None} \cup {Some(c) : c \in RegisterNames}

\* what another application may put on the system clipboard
ExternalItems ==
    {[text |-> <<"a">>, metadata |-> None],
     [text |-> <<"x">>, metadata |-> None]}

\* (is_yank, linewise) of the commands that write: with no register every
\* combination, with a register a charwise yank and a linewise delete
Flags(register) ==
    IF register = None THEN BOOLEAN \X BOOLEAN
    ELSE {<<TRUE, FALSE>>, <<FALSE, TRUE>>}

\* path of the file under the cursor, for register '%'
FilePaths == {None, Some(<<"f">>)}

Call(op, content, register, is_yank, linewise, editor, raced) ==
    [op |-> op, content |-> content, register |-> register,
     is_yank |-> is_yank, linewise |-> linewise, editor |-> editor,
     raced |-> raced]

NoCall == Call("none", None, None, FALSE, FALSE, None, FALSE)

Globals == [registers |-> registers, last_yank |-> last_yank,
            clipboard |-> clipboard, primary |-> primary]

\* the writes that decide what register 0 holds: an implicit yank, or an
\* explicit write naming '"' or '0'
NamesZero(register, is_yank) ==
    \/ register = None /\ is_yank
    \/ register \in {Some(Unnamed), Some("0")}

-----------------------------------------------------------------------------
(* Initial states. *)

\* VimGlobals::default(), the system clipboard still empty
InitRouter ==
    /\ registers = [c \in Chars |-> None]
    /\ last_yank = None
    /\ clipboard = None
    /\ primary = None
    /\ setting \in UseSystemClipboard
    /\ last = NoCall
    /\ result = None
    /\ lastWrite = NoCall
    /\ held = None
    /\ sinceWrite = 0
    /\ extSince = FALSE
    /\ zeroSource = None
    /\ steps = 0
    /\ pending = None
    /\ repeated = FALSE
    /\ deletes = <<>>

InitWaitingIdle ==
    /\ operator = [tag |-> "Change"]
    /\ mode = "Normal"
    /\ waiting = None

Init == InitRouter /\ InitWaitingIdle

-----------------------------------------------------------------------------
(* Actions. *)

ApplyWrite(content, register, is_yank, linewise) ==
    LET s == write_registers(Globals, content, register, is_yank, linewise,
                             setting, target_linux)
    IN  /\ pending = None
        /\ registers' = s.registers
        /\ last_yank' = s.last_yank
        /\ clipboard' = s.clipboard
        /\ primary' = s.primary
        /\ last' = Call("write", Some(content), register, is_yank, linewise,
                        None, FALSE)
        /\ lastWrite' = last'
        /\ held' = IF IsSome(register)
                   THEN registers[to_lowercase(Unwrap(register))]
                   ELSE None
        /\ sinceWrite' = 0
        /\ extSince' = FALSE
        /\ zeroSource' = IF NamesZero(register, is_yank) THEN Some(content)
                         ELSE zeroSource
        /\ steps' = steps + 1
        /\ repeated' = FALSE
        /\ UNCHANGED <<setting, result, pending>>

\* an editing command calls write_registers
Write ==
    /\ steps < MaxSteps
    /\ \E content \in Contents, register \in RegisterArgs :
        \E flags \in Flags(register) :
            ApplyWrite(content, register, flags[1], flags[2])
    /\ UNCHANGED <<deletes, waitingVars>>

\* the read takes the OnYank arm of lines 246-248: the clipboard is read
\* once by system_clipboard_is_newer (line 286) and once more for the result
\* (line 247)
reads_clipboard_twice(s, register, use_system_clipboard) ==
    /\ register \in {None, Some(Unnamed)}
    /\ use_system_clipboard = "OnYank"
    /\ system_clipboard_is_newer(s)

\* read_register stopped between its two clipboard reads; changed tells
\* that another application has set the clipboard since the first one
Pending(register, changed) == [register |-> register, changed |-> changed]

\* the step before returned a read of this name in this editor
RepeatsLast(register, current_file) ==
    /\ last.op = "read"
    /\ last.register = register
    /\ last.editor = current_file

\* a paste whose read also refreshes last_yank from the system clipboard
ReadRefreshing ==
    /\ steps < MaxSteps
    /\ pending = None
    /\ \E register \in RegisterArgs, current_file \in FilePaths :
        /\ register # Some("%") => current_file = None
        /\ IF reads_clipboard_twice(Globals, register, setting)
           THEN /\ pending' = Some(Pending(register, FALSE))
                /\ UNCHANGED <<result, last, steps, sinceWrite, last_yank,
                               repeated>>
           ELSE /\ result' = read_register(Globals, register, current_file,
                                           setting, target_linux)
                /\ last' = Call("read", None, register, FALSE, FALSE,
                                current_file, FALSE)
                /\ last_yank' = IF IsSome(clipboard)
                                THEN Some(Unwrap(clipboard).text)
                                ELSE last_yank
                /\ repeated' = RepeatsLast(register, current_file)
                /\ steps' = steps + 1
                /\ sinceWrite' = sinceWrite + 1
                /\ UNCHANGED pending
    /\ UNCHANGED <<registers, clipboard, primary, setting,
                   lastWrite, held, extSince, zeroSource, deletes,
                   waitingVars>>

\* a paste calls read_register: the call runs to its return, or, on the arm
\* that reads the clipboard twice, to the point after the first read
Read ==
    /\ steps < MaxSteps
    /\ pending = None
    /\ \E register \in RegisterArgs, current_file \in FilePaths :
        /\ register # Some("%") => current_file = None
        /\ IF reads_clipboard_twice(Globals, register, setting)
           THEN /\ pending' = Some(Pending(register, FALSE))
                /\ UNCHANGED <<result, last, steps, sinceWrite, repeated>>
           ELSE /\ result' = read_register(Globals, register, current_file,
                                           setting, target_linux)
                /\ last' = Call("read", None, register, FALSE, FALSE,
                                current_file, FALSE)
                /\ repeated' = RepeatsLast(register, current_file)
                /\ steps' = steps + 1
                /\ sinceWrite' = sinceWrite + 1
                /\ UNCHANGED pending
    /\ UNCHANGED <<registers, last_yank, clipboard, primary, setting,
                   lastWrite, held, extSince, zeroSource, deletes,
                   waitingVars>>

\* the second clipboard read of read_register (line 247) and its return:
\* whatever the clipboard holds by now, with no fallback to the store
ReadClipboard ==
    /\ pending # None
    /\ result' = MapItemToRegister(clipboard)
    /\ last' = Call("read", None, Unwrap(pending).register, FALSE, FALSE,
                    None, Unwrap(pending).changed)
    /\ repeated' = RepeatsLast(Unwrap(pending).register, None)
    /\ pending' = None
    /\ steps' = steps + 1
    /\ sinceWrite' = sinceWrite + 1
    /\ UNCHANGED <<registers, last_yank, clipboard, primary, setting,
                   lastWrite, held, extSince, zeroSource, deletes,
                   waitingVars>>

\* another application replaces or clears the system clipboard
ExternalClipboard ==
    /\ steps < MaxSteps
    /\ pending = None
    /\ \E item \in {None} \cup {Some(i) : i \in ExternalItems} :
        /\ clipboard' = item
        /\ last' = Call("external", None, None, FALSE, FALSE, None, FALSE)
    /\ extSince' = TRUE
    /\ repeated' = FALSE
    /\ steps' = steps + 1
    /\ sinceWrite' = sinceWrite + 1
    /\ UNCHANGED <<registers, last_yank, primary, setting, pending,
                   result, lastWrite, held, zeroSource, deletes, waitingVars>>

\* another application replaces or clears the system clipboard between the
\* two clipboard reads of one read_register call; several such changes
\* leave the second read what the last of them alone would, so one is taken
ExternalClipboardDuringRead ==
    /\ pending # None
    /\ ~Unwrap(pending).changed
    /\ \E item \in {None} \cup {Some(i) : i \in ExternalItems} :
        /\ clipboard' = item
        /\ last' = Call("external", None, None, FALSE, FALSE, None, FALSE)
    /\ pending' = Some(Pending(Unwrap(pending).register, TRUE))
    /\ extSince' = TRUE
    /\ repeated' = FALSE
    /\ sinceWrite' = sinceWrite + 1
    /\ UNCHANGED <<registers, last_yank, primary, setting, steps,
                   result, lastWrite, held, zeroSource, deletes, waitingVars>>

Next ==
    \/ Write
    \/ Read
    \/ ReadClipboard
    \/ ExternalClipboard
    \/ ExternalClipboardDuringRead

Spec == Init /\ [][Next]_vars

\* one implicit linewise delete (dd) of a whole line
DeleteLine ==
    /\ Len(deletes) < MaxDeletes
    /\ \E content \in LineContents :
        /\ ApplyWrite(content, None, FALSE, TRUE)
        /\ deletes' = Append(deletes, content)
    /\ UNCHANGED waitingVars

NextDeletes == DeleteLine

\* nothing but implicit linewise deletes, from the empty store
SpecDeletes == Init /\ [][NextDeletes]_vars

InitWaiting ==
    /\ InitRouter
    /\ setting = "Never"
    /\ operator \in Operators
    /\ mode \in Modes
    /\ waiting = None

\* the pending-operator machine asks is_waiting once
AskWaiting ==
    /\ waiting = None
    /\ waiting' = Some(is_waiting(operator, mode))
    /\ UNCHANGED <<routerVars, deletes, operator, mode>>

NextWaiting == AskWaiting

SpecWaiting == InitWaiting /\ [][NextWaiting]_vars

-----------------------------------------------------------------------------
(* Claims. *)

SpecialNames == {Unnamed, "_", ":", ".", "%", "#", "=", "/", "+", "*"}

IsUppercase(c) == to_lowercase(c) # c

\* the latest step was a read of the unnamed register
ReadOfUnnamed ==
    last.op = "read" /\ last.register \in {None, Some(Unnamed)}

\* the latest step was a read and the step before it was a write
ReadRightAfterWrite ==
    last.op = "read" /\ lastWrite.op = "write" /\ sinceWrite = 1

\* what the latest write wrote: its content, or for an uppercase name the
\* previous text of the lowercase register with the content's text appended
Written ==
    IF IsSome(lastWrite.register) /\ IsUppercase(Unwrap(lastWrite.register))
    THEN Some(Register((IF IsSome(held) THEN Unwrap(held).text ELSE <<>>)
                           \o Unwrap(lastWrite.content).text,
                       None))
    ELSE lastWrite.content

\* C1 as stated: after a write that is implicit or explicit to a register
\* other than '_', under every policy, the read of the unnamed register that
\* follows at once returns what was just written.
C1_ReadBackAnyWrite ==
    (ReadOfUnnamed /\ ReadRightAfterWrite
        /\ lastWrite.register # Some("_"))
    => result = Written

\* C1 amended: the read of the unnamed register that follows a write at once
\* returns what was just written when the write was implicit (under every
\* policy), or explicit to '+' (under every policy), or explicit to any other
\* register than '_' under Never.
C1_ReadBackImplicitOrNever ==
    (ReadOfUnnamed /\ ReadRightAfterWrite
        /\ \/ lastWrite.register = None
           \/ lastWrite.register = Some("+")
           \/ setting = "Never" /\ lastWrite.register # Some("_"))
    => result = Written

\* C1 witness: under OnYank, with something on the system clipboard, an
\* implicit delete is read back at once
C1_Witness ==
    /\ ReadOfUnnamed /\ ReadRightAfterWrite
    /\ lastWrite.register = None /\ ~lastWrite.is_yank
    /\ setting = "OnYank"
    /\ IsSome(clipboard)
    /\ MapItemToRegister(clipboard) # lastWrite.content
    /\ result = lastWrite.content

\* C2: after N > 9 implicit linewise deletes from the empty store, registers
\* '1'..'9' hold the 9 most recent deletes, the i-th most recent at register i.
C2_NineMostRecentDeletes ==
    Len(deletes) > 9 =>
        \A i \in 1..9 :
            registers[Digits[i]] = Some(deletes[Len(deletes) - i + 1])

\* C3: an explicit write to '_' leaves the register store and the system
\* clipboard unchanged, and a read of '_' returns no content.
C3_BlackHoleChangesNothing ==
    [][/\ (last'.op = "write" /\ last'.register = Some("_"))
            => (registers' = registers /\ clipboard' = clipboard)
       /\ (last'.op = "read" /\ last'.register = Some("_"))
            => result' = None]_vars

\* C4: under OnYank, after an implicit yank of A, a read of the unnamed
\* register returns the clipboard's B when an external actor has since set the
\* clipboard to a text other than A's, and the stored A when no external
\* actor has touched the clipboard since.
C4_OnYankFreshness ==
    (setting = "OnYank" /\ ReadOfUnnamed
        /\ lastWrite.op = "write" /\ lastWrite.register = None
        /\ lastWrite.is_yank)
    => /\ (extSince /\ IsSome(clipboard)
              /\ Unwrap(clipboard).text # Unwrap(lastWrite.content).text)
            => result = Some(ClipboardItemToRegister(Unwrap(clipboard)))
       /\ ~extSince => result = lastWrite.content

\* C4 witness: yank, external change to another text, read returning it
C4_Witness ==
    /\ setting = "OnYank" /\ ReadOfUnnamed
    /\ lastWrite.op = "write" /\ lastWrite.register = None
    /\ lastWrite.is_yank
    /\ extSince /\ sinceWrite = 2
    /\ IsSome(clipboard)
    /\ Unwrap(clipboard).text # Unwrap(lastWrite.content).text
    /\ result = Some(ClipboardItemToRegister(Unwrap(clipboard)))
    /\ result # registers[Unnamed]

\* the latest step read the register the step before it wrote explicitly
ReadOfWrittenName ==
    /\ ReadRightAfterWrite
    /\ IsSome(lastWrite.register)
    /\ last.register = lastWrite.register

\* C5: an explicit write to a non-special name followed at once by a read of
\* the same name returns the content unchanged, text and selections; for an
\* uppercase name the read returns the lowercase register's previous text
\* with the new text appended.
C5_RoundTrip ==
    ReadOfWrittenName =>
        LET name == Unwrap(lastWrite.register)
            content == Unwrap(lastWrite.content)
            previous == IF IsSome(held) THEN Unwrap(held).text ELSE <<>>
        IN  /\ (~IsUppercase(name) /\ name \notin SpecialNames)
                => result = Some(content)
            /\ IsUppercase(name)
                => /\ IsSome(result)
                   /\ Unwrap(result).text = previous \o content.text

\* C5 witness: an append to a non-empty register read back through 'A'
C5_Witness ==
    /\ ReadOfWrittenName
    /\ lastWrite.register = Some("A")
    /\ IsSome(held)
    /\ IsSome(result)
    /\ Len(Unwrap(result).text) > Len(Unwrap(lastWrite.content).text)

\* register '-' and the numbered stack
DeleteNames == {"-"} \cup NumberedNames

\* the step is a call of write_registers
IsWrite == last'.op = "write" /\ pending' = None

\* C6 as stated: every write with is_yank = true leaves register '-' and
\* registers '1'..'9' as they were.
C6_YankLeavesDeleteRegisters ==
    [][(IsWrite /\ last'.is_yank)
        => \A k \in DeleteNames : registers'[k] = registers[k]]_vars

\* C6 amended: every write with is_yank = true that does not itself name
\* '-' or one of '1'..'9' as its register leaves register '-' and registers
\* '1'..'9' as they were, whatever the text and the linewise flag.
C6_UnnamedYankLeavesDeleteRegisters ==
    [][(IsWrite /\ last'.is_yank
            /\ last'.register \notin {Some(k) : k \in DeleteNames})
        => \A k \in DeleteNames : registers'[k] = registers[k]]_vars

\* C6 witness: an implicit linewise yank over a populated '-' and '1'
C6_Witness ==
    /\ last.op = "write" /\ last.is_yank /\ last.linewise
    /\ last.register = None
    /\ IsSome(registers["-"]) /\ IsSome(registers["1"])
    /\ registers["0"] = last.content

\* C7 as stated: no write with is_yank = false populates or alters
\* register '0'.
C7_OnlyYankWritesZero ==
    [][(IsWrite /\ ~last'.is_yank) => registers'["0"] = registers["0"]]_vars

\* C7 amended: a write with is_yank = false alters register '0' only when it
\* names '"' or '0' as its register (an implicit delete or change never
\* does), so register '0' always equals the content of the latest write that
\* was an implicit yank or named '"' or '0', and is unset before any.
C7_ZeroHoldsLatestYank ==
    [][/\ (IsWrite /\ ~last'.is_yank
              /\ last'.register \notin {Some(Unnamed), Some("0")})
            => registers'["0"] = registers["0"]
       /\ registers'["0"] = zeroSource']_vars

\* C7 witness: a small delete after a yank, register '0' still the yank
C7_Witness ==
    /\ last.op = "write" /\ ~last.is_yank /\ ~last.linewise
    /\ last.register = None
    /\ ~contains_newline(Unwrap(last.content).text)
    /\ IsSome(registers["0"])
    /\ registers["0"] # last.content
    /\ registers["-"] = last.content

\* C8: an implicit write with is_yank = false changes register '-' only if
\* linewise = false and the text has no line break.
C8_SmallDeleteOnly ==
    [][(IsWrite /\ last'.register = None /\ ~last'.is_yank
            /\ registers'["-"] # registers["-"])
        => (~last'.linewise
            /\ ~contains_newline(Unwrap(last'.content).text))]_vars

\* C9: after every write the store's entry '"' equals the content just
\* written, or after an uppercase write the merged register.
C9_UnnamedMirrorsWrite ==
    last.op = "write" =>
        /\ registers[Unnamed] = Written
        /\ (IsSome(last.register) /\ IsUppercase(Unwrap(last.register)))
            => registers[Unnamed]
                   = registers[to_lowercase(Unwrap(last.register))]

\* C9 witness: a write to a read-only name mirrored over an older entry
C9_Witness ==
    /\ last.op = "write"
    /\ IsSome(last.register) /\ Unwrap(last.register) \in ReadOnlyNames
    /\ steps > 1
    /\ registers[Unnamed] = last.content
    /\ \E k \in {"0", "-", "1", "a"} :
        IsSome(registers[k]) /\ registers[k] # last.content

\* the operators the claim lists as waiting and as not waiting
WaitingTags ==
    {"FindForward", "FindBackward", "Mark", "Jump", "Register",
     "RecordRegister", "ReplayRegister", "Replace", "Digraph",
     "DeleteSurrounds"}

ImmediateTags ==
    {"Change", "Delete", "Yank", "Indent", "Outdent", "Lowercase",
     "Uppercase", "OppositeCase", "Object", "ToggleComments"}

\* C10: is_waiting returns true for the waiting operators and for
\* ChangeSurrounds with a target, false for the immediate operators and for
\* ChangeSurrounds without one, false for AddSurrounds{None} in Normal and
\* true in Visual; only for AddSurrounds does the mode matter.
C10_IsWaitingTable ==
    IsSome(waiting) =>
        /\ operator.tag \in WaitingTags => waiting = Some(TRUE)
        /\ operator.tag \in ImmediateTags => waiting = Some(FALSE)
        /\ operator.tag = "ChangeSurrounds"
            => waiting = Some(IsSome(operator.target))
        /\ (operator.tag = "AddSurrounds" /\ operator.target = None)
            => /\ mode = "Normal" => waiting = Some(FALSE)
               /\ mode = "Visual" => waiting = Some(TRUE)
        /\ operator.tag # "AddSurrounds"
            => \A m \in Modes : is_waiting(operator, m) = Unwrap(waiting)

\* C10 witness: AddSurrounds without a target asked in Visual mode
C10_Witness ==
    /\ waiting = Some(TRUE)
    /\ operator = [tag |-> "AddSurrounds", target |-> None]
    /\ mode = "Visual"

VisualModes == {"Visual", "VisualLine", "VisualBlock"}

\* C11 as stated: for AddSurrounds is_waiting returns true whenever no target
\* has been chosen or the mode is one of the visual variants.
C11_AddSurroundsWaitsWithoutTarget ==
    (IsSome(waiting) /\ operator.tag = "AddSurrounds"
        /\ (operator.target = None \/ mode \in VisualModes))
    => waiting = Some(TRUE)

\* C11 amended: for AddSurrounds is_waiting returns true exactly when a
\* target has been chosen or the mode is one of the visual variants; with no
\* target in Normal, Insert or Replace mode it returns false.
C11_AddSurroundsWaitsWithTarget ==
    (IsSome(waiting) /\ operator.tag = "AddSurrounds")
    => waiting = Some(IsSome(operator.target) \/ mode \in VisualModes)

\* C11 witness: AddSurrounds with a target asked in Normal mode
C11_Witness ==
    /\ waiting = Some(TRUE)
    /\ operator = [tag |-> "AddSurrounds", target |-> Some("Motion")]
    /\ mode = "Normal"


\* C12: when the system clipboard yields nothing, a read of the unnamed
\* register returns the stored entry '"' (no content only when there is no
\* such entry), under every policy.
C12_EmptyClipboardFallsBack ==
    (ReadOfUnnamed /\ clipboard = None) => result = registers[Unnamed]


\* C13: an implicit write puts its content on the system clipboard when the
\* policy is Always, or OnYank with is_yank = true, and leaves the system
\* clipboard unchanged otherwise.
C13_ImplicitMirroring ==
    [][(IsWrite /\ last'.register = None)
        => IF setting = "Always" \/ (setting = "OnYank" /\ last'.is_yank)
           THEN /\ IsSome(clipboard')
                /\ Unwrap(clipboard').text = Unwrap(last'.content).text
                /\ MapItemToRegister(clipboard') = last'.content
           ELSE clipboard' = clipboard]_vars

\* C13 witness: under OnYank an implicit delete next to a clipboard that
\* holds something else
C13_Witness ==
    /\ last.op = "write" /\ last.register = None /\ ~last.is_yank
    /\ setting = "OnYank"
    /\ IsSome(clipboard)
    /\ Unwrap(clipboard).text # Unwrap(last.content).text
    /\ registers[Unnamed] = last.content


\* the step is an explicit write to an uppercase name
IsUppercaseWrite ==
    /\ IsWrite
    /\ IsSome(last'.register)
    /\ IsUppercase(Unwrap(last'.register))

\* C14: an explicit write of text t to an uppercase name X, the lowercase
\* register x holding text s (empty if unset), leaves x holding s followed
\* by t without selections, sets the unnamed register to the same value, and
\* changes no other register, nor the system clipboard, nor last_yank; no
\* entry appears under X.
C14_UppercaseAppends ==
    [][IsUppercaseWrite =>
        LET upper == Unwrap(last'.register)
            lower == to_lowercase(upper)
            s == IF IsSome(registers[lower])
                 THEN Unwrap(registers[lower]).text ELSE <<>>
            t == Unwrap(last'.content).text
            merged == [text |-> s \o t, clipboard_selections |-> None]
        IN  /\ registers'[lower] = Some(merged)
            /\ registers'[Unnamed] = Some(merged)
            /\ \A c \in Chars \ {lower, Unnamed} :
                    registers'[c] = registers[c]
            /\ registers'[upper] = None
            /\ clipboard' = clipboard
            /\ primary' = primary
            /\ last_yank' = last_yank]_vars

\* C14 witness: an append to a register that held text with selections
C14_Witness ==
    /\ last.op = "write" /\ last.register = Some("A")
    /\ IsSome(held)
    /\ IsSome(Unwrap(held).clipboard_selections)
    /\ IsSome(Unwrap(last.content).clipboard_selections)
    /\ registers["a"]
         = Some([text |-> Unwrap(held).text \o Unwrap(last.content).text,
                 clipboard_selections |-> None])


\* registers '1'..'k' are populated and register 'k+1', if any, is empty
StackHeight(regs, k) ==
    /\ \A i \in 1..k : IsSome(regs[Digits[i]])
    /\ k < 9 => regs[Digits[k + 1]] = None

\* the step is an implicit delete or change that goes to the numbered stack
IsStackedDelete ==
    /\ IsWrite
    /\ last'.register = None
    /\ ~last'.is_yank
    /\ last'.linewise \/ contains_newline(Unwrap(last'.content).text)

\* C15: on an implicit non-yank write that is linewise or has a line break,
\* with registers '1'..'k' populated and 'k+1' empty (0 <= k <= 8) or all of
\* '1'..'9' populated (k = 9), afterwards register '1' holds the new
\* content, register 'i+1' the former content of register 'i' for every i
\* up to k (up to 8 when k = 9), and the registers above 'k+1' are unchanged.
C15_SingleShift ==
    [][IsStackedDelete =>
        \A k \in 0..9 :
            StackHeight(registers, k) =>
                /\ registers'["1"] = last'.content
                /\ \A i \in 1..8 :
                        i <= k => registers'[Digits[i + 1]] = registers[Digits[i]]
                /\ \A j \in 1..9 :
                        j > k + 1 => registers'[Digits[j]] = registers[Digits[j]]]_vars


\* C16: under OnYank, after an implicit delete or change of D and with no
\* external clipboard change since, last_yank is the text the system
\* clipboard holds (nothing if it is empty) and a read of the unnamed
\* register returns the stored D, also when the clipboard was changed
\* externally before the write.
C16_OnYankDeleteReadsBack ==
    (setting = "OnYank" /\ lastWrite.op = "write"
        /\ lastWrite.register = None /\ ~lastWrite.is_yank /\ ~extSince)
    => /\ last_yank = IF IsSome(clipboard)
                      THEN Some(Unwrap(clipboard).text) ELSE None
       /\ ReadOfUnnamed => result = lastWrite.content

\* C16 witness: the clipboard set externally to "x", then a delete, then the
\* read returning the delete
C16_Witness ==
    /\ setting = "OnYank" /\ ReadOfUnnamed /\ ~extSince
    /\ lastWrite.op = "write" /\ lastWrite.register = None
    /\ ~lastWrite.is_yank
    /\ IsSome(clipboard) /\ Unwrap(clipboard).text = <<"x">>
    /\ last_yank = Some(<<"x">>)
    /\ result = lastWrite.content


\* names that are never a key of the store
NeverStoredNames == {"_", ":", ".", "%", "#", "=", "/", "+", "*"}

\* C17: the store never has an entry under an uppercase char nor under one
\* of '_', ':', '.', '%', '#', '=', '/', '+', '*'.
C17_KeyDomain ==
    \A c \in Chars :
        (IsUppercase(c) \/ c \in NeverStoredNames) => registers[c] = None

\* C17 witness: after writes to 'A', '*' and '_' the store has the entries
\* 'a' and '"' only
C17_Witness ==
    /\ last.op = "write" /\ last.register = Some("_")
    /\ IsSome(primary)
    /\ IsSome(registers["a"])
    /\ Unwrap(registers["a"]).clipboard_selections = None
    /\ \A c \in Chars \ {"a", Unnamed} : registers[c] = None


\* the plain lowercase letter names among the register arguments
PlainLetters == {c \in RegisterNames : c \in {"a"}}

\* C18: an explicit write to a plain lowercase letter register, whatever
\* is_yank, linewise and the clipboard policy, sets that register and the
\* unnamed register to the content and leaves every other register ('0', '-',
\* '1'..'9', the other names), the system clipboard, the primary selection
\* and last_yank unchanged.
C18_PlainLetterFrame ==
    [][(IsWrite /\ last'.register \in {Some(c) : c \in PlainLetters})
        => LET name == Unwrap(last'.register)
           IN  /\ registers'[name] = last'.content
               /\ registers'[Unnamed] = last'.content
               /\ \A c \in Chars \ {name, Unnamed} :
                      registers'[c] = registers[c]
               /\ clipboard' = clipboard
               /\ primary' = primary
               /\ last_yank' = last_yank]_vars

\* C18 witness: under Always, a yank written to 'a' after an implicit write
\* of another text: '0' and the clipboard still hold the earlier text
C18_Witness ==
    /\ last.op = "write" /\ last.register = Some("a") /\ last.is_yank
    /\ setting = "Always"
    /\ IsSome(registers["0"]) /\ registers["0"] # last.content
    /\ IsSome(clipboard)
    /\ clipboard # Some(RegisterToClipboardItem(Unwrap(last.content)))
    /\ last_yank # Some(Unwrap(last.content).text)
    /\ registers["a"] = last.content


\* the step is part of a call of read_register: its first clipboard read
\* on the arm that reads twice, or its return
IsReadStep ==
    \/ pending = None /\ pending' # None
    \/ last'.op = "read" /\ pending' = None

\* the step is the return of a read that directly follows the return of a
\* read of the same name in the same editor, whichever arm each of them took
IsRepeatedRead ==
    /\ last'.op = "read" /\ pending' = None
    /\ last.op = "read"
    /\ last.register = last'.register
    /\ last.editor = last'.editor

\* C19: a read, of whatever name and under whatever policy and clipboard,
\* leaves the store, last_yank, the system clipboard and the primary
\* selection unchanged, and a read that directly follows a read of the same
\* name returns the same result when no other application has changed the
\* clipboard since the first of the two began (a change that falls between
\* the two clipboard reads of the first one comes between the reads too).
C19_ReadHasNoEffect ==
    [][/\ IsReadStep
           => /\ registers' = registers
              /\ last_yank' = last_yank
              /\ clipboard' = clipboard
              /\ primary' = primary
       /\ (IsRepeatedRead /\ ~last.raced) => result' = result]_vars

\* C19 witness: under OnYank another application puts "x" on the clipboard,
\* then the unnamed register is read twice in a row: both reads find the
\* clipboard newer, read it a second time and return "x"
C19_Witness ==
    /\ setting = "OnYank"
    /\ last.op = "read" /\ last.register = None /\ ~last.raced
    /\ repeated
    /\ lastWrite = NoCall
    /\ steps = 3 /\ sinceWrite = 3
    /\ clipboard = Some([text |-> <<"x">>, metadata |-> None])
    /\ last_yank = None
    /\ registers[Unnamed] = None
    /\ result = Some(Register(<<"x">>, None))


\* the texts of the entries of a store
StoredTexts(regs) ==
    {Unwrap(regs[c]).text : c \in {k \in Chars : IsSome(regs[k])}}

\* the texts passed as content to write_registers
ContentTexts == {content.text : content \in Contents}

\* text is the text of a content, or several of them one after another
RECURSIVE IsWrittenText(_)
IsWrittenText(text) ==
    \E t \in ContentTexts :
        /\ Len(t) <= Len(text)
        /\ SubSeq(text, 1, Len(t)) = t
        /\ \/ Len(t) = Len(text)
           \/ IsWrittenText(SubSeq(text, Len(t) + 1, Len(text)))

\* C20: whatever the interleaving of writes, reads and external changes of
\* the system clipboard, the text of every entry of the store is the text of
\* the content of a write or such texts appended one to another; a step that
\* is not a write leaves every stored register as it is, and the external
\* change alters nothing but the clipboard.
C20_NoLeakIntoStore ==
    /\ [](\A text \in StoredTexts(registers) : IsWrittenText(text))
    /\ [][/\ ~IsWrite => registers' = registers
          /\ (last'.op = "external")
              => last_yank' = last_yank /\ primary' = primary]_vars

\* C20 witness: an implicit write made after another application put "x" on
\* the clipboard took "x" into last_yank, and the store holds the written
\* texts only
C20_Witness ==
    /\ last.op = "write" /\ last.register = None
    /\ last_yank = Some(<<"x">>)
    /\ clipboard = Some([text |-> <<"x">>, metadata |-> None])
    /\ IsSome(registers["a"])
    /\ registers[Unnamed] = last.content
    /\ <<"x">> \notin StoredTexts(registers)

====
